---- MODULE Spec2Model ----
(***************************************************************************)
(* Model of bnns/experiments/train_nn.py: the checkpointed training loop   *)
(* with early stopping, the diagnostic recorder, the metrics dispatch and  *)
(* the persistence stage.                                                  *)
(*                                                                         *)
(* Numbers that the script obtains from the network (losses, the probe of  *)
(* the forward pass) are inputs drawn from small sets.  The mean of the    *)
(* last STRIDE validation losses is kept as an exact fraction.             *)
(***************************************************************************)
EXTENDS Integers, Sequences, FiniteSets

(* ------------------------------ bounds -------------------------------- *)
MaxEpoch == 2          \* largest checkpoint value in N_EPOCHS
MaxCkpts == 2          \* longest N_EPOCHS list
MaxBatches == 2        \* largest len(dataloader)
MaxHowOften == 2       \* largest HOW_OFTEN
MaxPatience == 2       \* largest PATIENCE
MaxStride == 2         \* largest STRIDE
MaxSteps == 4          \* cap on the mini-batch steps of one run
MaxCalls == 4          \* cap on the calls of the stand-alone EarlyStopper
MaxValue == 4          \* largest value fed to the stand-alone EarlyStopper

LossValues == {0, 1}   \* validation losses
TrainLossValues == {0}  \* batch losses: recorded, never read back
TrainDeltas == {0, 1}
Deltas == {-1, 0, 1}
ProbeOutputs == {0, 1}

VARIABLES
    \* configuration (the JSON file, the CLI, the data and model modules)
    N_EPOCHS, BATCHES, HOW_OFTEN, EARLY_STOPPING, PATIENCE, DELTA, STRIDE,
    dropout, grids_defined, overwrite_json, model_save_dir, input_json_filename,
    \* program state
    pc, CHECKPOINTS, ci, n_epochs, e, b, last_checkpoint, pbar_n,
    decided_to_stop_early, first_round, train_loss_curve, val_loss_curve,
    es_best, es_counter, hyperparameters, hp_n_epochs, files,
    \* history
    total_steps, block_planned, block_epochs, tick_steps, evals, fs_log,
    es_in, es_out, stop_boundary

config == <<N_EPOCHS, BATCHES, HOW_OFTEN, EARLY_STOPPING, PATIENCE, DELTA, STRIDE,
            dropout, grids_defined, overwrite_json, model_save_dir, input_json_filename>>
loopvars == <<CHECKPOINTS, ci, n_epochs, e, b, last_checkpoint, pbar_n>>
curves == <<train_loss_curve, val_loss_curve>>
stopper == <<es_best, es_counter, es_in, es_out>>
record == <<hyperparameters, hp_n_epochs, files, first_round, evals, fs_log>>
vars == <<config, pc, loopvars, decided_to_stop_early, curves, stopper, record,
          total_steps, block_planned, block_epochs, tick_steps, stop_boundary>>

(* ------------------------------ helpers ------------------------------- *)
Abs(x) == IF x < 0 THEN -x ELSE x
Min(x, y) == IF x < y THEN x ELSE y
Max(x, y) == IF x < y THEN y ELSE x

RECURSIVE SumSeq(_)
SumSeq(s) == IF s = <<>> THEN 0 ELSE Head(s) + SumSeq(Tail(s))

\* s[-k:] of Python for k >= 1
LastK(s, k) == SubSeq(s, Max(1, Len(s) - k + 1), Len(s))

\* statistics.mean, as the exact fraction num/den
avg(s) == [inf |-> FALSE, num |-> SumSeq(s), den |-> Len(s)]

Whole(v) == [inf |-> FALSE, num |-> v, den |-> 1]
Infinity == [inf |-> TRUE, num |-> 0, den |-> 1]

(* ---------------------------- EarlyStopper ---------------------------- *)
\* value < best - delta, best starting at +infinity
Improved(value, best, delta) ==
    best.inf \/ value.num * best.den < (best.num - delta * best.den) * value.den

\* variant: one more call is needed before the signal
StopSignal_Late(counter, patience) == counter > patience

StopSignal(counter, patience) == counter >= patience

\* one call stopper(value): the new best and counter, and the returned flag
EarlyStopper(best, counter, delta, patience, value) ==
    IF Improved(value, best, delta)
    THEN [best |-> value, counter |-> 0, ret |-> FALSE]
    ELSE [best |-> best, counter |-> counter + 1,
          ret |-> StopSignal(counter + 1, patience)]

(* ------------------------ configuration values ------------------------ *)
\* a JSON number: the integer v, or the non-integer v + 0.5
Int_(v) == [isint |-> TRUE, v |-> v]
Float_(v) == [isint |-> FALSE, v |-> v]
Numbers == {Int_(v) : v \in -1..MaxEpoch} \cup {Float_(1)}

RECURSIVE SeqsUpTo(_, _)
SeqsUpTo(S, n) ==
    IF n = 0 THEN {<<>>}
    ELSE LET shorter == SeqsUpTo(S, n - 1)
         IN shorter \cup {Append(s, x) : s \in {t \in shorter : Len(t) = n - 1}, x \in S}

\* N_EPOCHS as written in the JSON file: one number, or a list of numbers
Scalar(x) == [kind |-> "scalar", num |-> x, items |-> <<>>]
List(s) == [kind |-> "list", num |-> Int_(0), items |-> s]
NEpochsInputs == {Scalar(x) : x \in Numbers} \cup {List(s) : s \in SeqsUpTo(Numbers, MaxCkpts)}

\* file names, as sequences of characters
DemoName == <<"d", "e", "m", "o", "_", "n", "n">>
RunName == <<"r", "u", "n">>
MyDemoName == <<"m", "y", "d", "e", "m", "o">>
GeneratedName == <<"g", "e", "n">>
InputNames == {DemoName, RunName, MyDemoName}

\* input_json_filename.startswith("demo")
StartsWithDemo(name) == Len(name) >= 4 /\ SubSeq(name, 1, 4) = <<"d", "e", "m", "o">>

\* dropout = (NN(X)-NN(X)).abs().mean() > 0, for two outputs of the same input
Dropout(out1, out2) == Abs(out1 - out2) > 0

TemplateKeys ==
    {"DEVICE", "DTYPE", "SEED", "DATA", "MODEL", "OPTIMIZER", "LR", "BATCH_SIZE",
     "N_EPOCHS", "EARLY_STOPPING", "DELTA", "PATIENCE", "STRIDE", "N_MC_SAMPLES",
     "MAKE_GIF", "HOW_OFTEN", "INITIAL_FRAME_REPETITIONS", "FINAL_FRAME_REPETITIONS",
     "HOW_MANY_INDIVIDUAL_PREDICTIONS", "VISUALIZE_DISTRIBUTION_USING_QUANTILES",
     "N_POSTERIOR_SAMPLES", "N_POSTERIOR_SAMPLES_EVALUATION", "SHOW_DIAGNOSTICS",
     "SHOW_PLOT"}

(* ----------------------------- the metrics ---------------------------- *)
RunKeys == {"n_epochs", "compute_time", "val_loss_curve", "train_loss_curve"}

PointKeys == {"METRIC_rmse", "METRIC_mae", "METRIC_max_norm"}

SampleKeys ==
    {"METRIC_rmse_of_median", "METRIC_rmse_of_mean", "METRIC_mae_of_median",
     "METRIC_mae_of_mean", "METRIC_max_norm_of_median", "METRIC_max_norm_of_mean",
     "METRIC_median_energy_score", "METRIC_coverage",
     "METRIC_median_avg_inverval_score"}

AccuracyKeys ==
    {"METRIC_uncertainty_vs_accuracy_slope_quantile",
     "METRIC_uncertainty_vs_accuracy_cor_quantile",
     "METRIC_uncertainty_vs_accuracy_slope_pm2_std",
     "METRIC_uncertainty_vs_accuracy_cor_pm2_std"}

GridKeys ==
    {"METRIC_extrapolation_uncertainty_vs_proximity_slope_quantile",
     "METRIC_interpolation_uncertainty_vs_proximity_slope_quantile",
     "METRIC_uncertainty_vs_proximity_cor_quantile",
     "METRIC_extrapolation_uncertainty_spread_quantile",
     "METRIC_interpolation_uncertainty_spread_quantile",
     "METRIC_extrapolation_uncertainty_vs_proximity_slope_pm2_std",
     "METRIC_interpolation_uncertainty_vs_proximity_slope_pm2_std",
     "METRIC_uncertainty_vs_proximity_cor_pm2_std",
     "METRIC_extrapolation_uncertainty_spread_pm2_std",
     "METRIC_interpolation_uncertainty_spread_pm2_std"}

\* variant: the point metrics are recorded whatever the flag
MetricKeys_Always(stochastic, grids) ==
    PointKeys \cup (IF stochastic
                     THEN SampleKeys \cup AccuracyKeys \cup (IF grids THEN GridKeys ELSE {})
                     ELSE {})

\* the METRIC_ keys one evaluation assigns
MetricKeys(stochastic, grids) ==
    IF stochastic
    THEN SampleKeys \cup AccuracyKeys \cup (IF grids THEN GridKeys ELSE {})
    ELSE PointKeys

(* --------------------- the checkpoint list (200-212) ------------------ *)
\* list(N_EPOCHS), or [N_EPOCHS] when N_EPOCHS is not iterable
Normalize(raw) == IF raw.kind = "list" THEN raw.items ELSE <<raw.num>>

\* variant: the sign is not asserted
ValidCheckpoint_NoSign(x) == x.isint

\* the two assertions on one element
ValidCheckpoint(x) == x.isint /\ x.v >= 0

AllValid(cps) == \A k \in 1..Len(cps) : ValidCheckpoint(cps[k])

(* ------------------------------ the guards ---------------------------- *)
\* variant: a boundary is entered whatever the flag
CheckpointGuard_Always == TRUE

\* line 225
CheckpointGuard == ~decided_to_stop_early

\* variant: every block starts again from zero
EpochsToRun_FromZero(n, last) == n

\* line 228: range(n_epochs-last_checkpoint)
EpochsToRun(n, last) == n - last

\* variant: an epoch is trained whatever the flag
EpochGuard_Always == TRUE

\* line 236
EpochGuard == ~decided_to_stop_early

\* variant: the test is on pbar.n itself
ShouldTick_NoOffset(n) == n % HOW_OFTEN = 0

\* line 250, on pbar.n after pbar.update()
ShouldTick(n) == (n + 1) % HOW_OFTEN = 0

\* variant: first_round is not consulted
ShouldRemove_EveryRound == overwrite_json

\* line 327-330
ShouldRemove == first_round /\ overwrite_json

\* process_for_saving: a name that collides with no existing file
RECURSIVE ProcessForSaving(_, _)
ProcessForSaving(name, existing) ==
    IF name \notin existing THEN name
    ELSE ProcessForSaving(Append(name, "1"), existing)

(* -------------------------------- Init -------------------------------- *)
InitState ==
    /\ CHECKPOINTS = <<>>
    /\ ci = 1
    /\ n_epochs = 0
    /\ e = 0
    /\ b = 0
    /\ last_checkpoint = 0
    /\ pbar_n = 0
    /\ decided_to_stop_early = FALSE
    /\ first_round = TRUE
    /\ train_loss_curve = <<>>
    /\ val_loss_curve = <<>>
    /\ es_best = Infinity
    /\ es_counter = 0
    /\ hyperparameters = TemplateKeys
    /\ hp_n_epochs = Whole(0)
    /\ files = {input_json_filename}
    /\ total_steps = 0
    /\ block_planned = 0
    /\ block_epochs = 0
    /\ tick_steps = <<>>
    /\ evals = <<>>
    /\ fs_log = <<>>
    /\ es_in = <<>>
    /\ es_out = <<>>
    /\ stop_boundary = 0

\* the training inputs; with early stopping off its parameters are never read
TrainInputs ==
    /\ N_EPOCHS \in NEpochsInputs
    /\ BATCHES \in 1..MaxBatches
    /\ HOW_OFTEN \in 1..MaxHowOften
    /\ EARLY_STOPPING \in BOOLEAN
    /\ IF EARLY_STOPPING
       THEN /\ PATIENCE \in 0..MaxPatience
            /\ DELTA \in TrainDeltas
            /\ STRIDE \in 1..MaxStride
       ELSE /\ PATIENCE = 1
            /\ DELTA = 0
            /\ STRIDE = 1

\* what the evaluation and the saving depend on
RecordInputs ==
    /\ \E out1 \in ProbeOutputs, out2 \in ProbeOutputs : dropout = Dropout(out1, out2)
    /\ grids_defined \in BOOLEAN
    /\ overwrite_json \in BOOLEAN
    /\ model_save_dir \in {"None", "dir"}
    /\ input_json_filename \in InputNames

\* runs over all training inputs, of a deterministic network saved under a new name
Init ==
    /\ TrainInputs
    /\ dropout = Dropout(0, 0)
    /\ grids_defined = FALSE
    /\ overwrite_json = FALSE
    /\ model_save_dir = "None"
    /\ input_json_filename = RunName
    /\ pc = "start"
    /\ InitState

\* runs over all evaluation and saving inputs, one mini-batch per epoch
InitRecord ==
    /\ N_EPOCHS \in NEpochsInputs
    /\ BATCHES = 1
    /\ HOW_OFTEN \in 1..MaxHowOften
    /\ EARLY_STOPPING = FALSE
    /\ PATIENCE = 1
    /\ DELTA = 0
    /\ STRIDE = 1
    /\ RecordInputs
    /\ pc = "start"
    /\ InitState

\* the EarlyStopper alone, fed arbitrary values
InitStopper ==
    /\ N_EPOCHS = Scalar(Int_(0))
    /\ BATCHES = 1
    /\ HOW_OFTEN = 1
    /\ EARLY_STOPPING = TRUE
    /\ PATIENCE \in 0..MaxPatience
    /\ DELTA \in Deltas
    /\ STRIDE = 1
    /\ dropout = Dropout(0, 0)
    /\ grids_defined = FALSE
    /\ overwrite_json = FALSE
    /\ model_save_dir = "None"
    /\ input_json_filename = RunName
    /\ pc = "stopper"
    /\ InitState

(* ------------------------------- actions ------------------------------ *)
\* lines 200-212
Validate ==
    /\ pc = "start"
    /\ CHECKPOINTS' = Normalize(N_EPOCHS)
    /\ pc' = IF AllValid(CHECKPOINTS') THEN "checkpoint" ELSE "AssertionError"
    /\ UNCHANGED <<config, ci, n_epochs, e, b, last_checkpoint, pbar_n,
                   decided_to_stop_early, curves, stopper, record, total_steps,
                   block_planned, block_epochs, tick_steps, stop_boundary>>

\* lines 224-227: the next element of CHECKPOINTS
NextCheckpoint ==
    /\ pc = "checkpoint"
    /\ IF ci > Len(CHECKPOINTS)
       THEN /\ pc' = "finished"
            /\ UNCHANGED <<ci, n_epochs, e, pbar_n, block_planned, block_epochs>>
       ELSE /\ n_epochs' = CHECKPOINTS[ci].v
            /\ IF CheckpointGuard
               THEN /\ pbar_n' = last_checkpoint
                    /\ e' = 0
                    /\ block_planned' = EpochsToRun(n_epochs', last_checkpoint)
                    /\ block_epochs' = 0
                    /\ pc' = "epoch"
                    /\ ci' = ci
               ELSE /\ ci' = ci + 1
                    /\ pc' = "checkpoint"
                    /\ UNCHANGED <<e, pbar_n, block_planned, block_epochs>>
    /\ UNCHANGED <<config, CHECKPOINTS, b, last_checkpoint, decided_to_stop_early,
                   curves, stopper, record, total_steps, tick_steps, stop_boundary>>

\* lines 228-237 and 265: one turn of the epoch loop, or its end
NextEpoch ==
    /\ pc = "epoch"
    /\ IF e < block_planned
       THEN /\ IF EpochGuard
               THEN /\ b' = 0
                    /\ pc' = "batch"
                    /\ e' = e
               ELSE /\ e' = e + 1
                    /\ pc' = "epoch"
                    /\ b' = b
            /\ UNCHANGED last_checkpoint
       ELSE /\ last_checkpoint' = n_epochs
            /\ pc' = "evaluate"
            /\ UNCHANGED <<e, b>>
    /\ UNCHANGED <<config, CHECKPOINTS, ci, n_epochs, pbar_n, decided_to_stop_early,
                   curves, stopper, record, total_steps, block_planned, block_epochs,
                   tick_steps, stop_boundary>>

\* lines 237-264: one mini-batch
TrainStep ==
    /\ pc = "batch"
    /\ b < BATCHES
    /\ total_steps < MaxSteps
    /\ \E loss \in TrainLossValues, val_loss \in LossValues :
        LET n == pbar_n + 1
            tick == ShouldTick(n)
            vcurve == IF tick THEN Append(val_loss_curve, val_loss) ELSE val_loss_curve
            call == tick /\ EARLY_STOPPING
            value == avg(LastK(vcurve, STRIDE))
            r == EarlyStopper(es_best, es_counter, DELTA, PATIENCE, value)
            stop == call /\ r.ret
        IN /\ total_steps' = total_steps + 1
           /\ pbar_n' = n
           /\ train_loss_curve' = IF tick THEN Append(train_loss_curve, loss)
                                          ELSE train_loss_curve
           /\ val_loss_curve' = vcurve
           /\ tick_steps' = IF tick THEN Append(tick_steps, total_steps') ELSE tick_steps
           /\ es_best' = IF call THEN r.best ELSE es_best
           /\ es_counter' = IF call THEN r.counter ELSE es_counter
           /\ es_in' = IF call THEN Append(es_in, value) ELSE es_in
           /\ es_out' = IF call THEN Append(es_out, r.ret) ELSE es_out
           /\ decided_to_stop_early' = IF call THEN r.ret ELSE decided_to_stop_early
           /\ stop_boundary' = IF stop THEN ci ELSE stop_boundary
           /\ IF stop
              THEN /\ e' = e + 1
                   /\ pc' = "epoch"
                   /\ b' = b
              ELSE /\ b' = b + 1
                   /\ UNCHANGED <<e, pc>>
    /\ UNCHANGED <<config, CHECKPOINTS, ci, n_epochs, last_checkpoint, record,
                   block_planned, block_epochs>>

\* line 237: the dataloader is exhausted
EndEpoch ==
    /\ pc = "batch"
    /\ b >= BATCHES
    /\ e' = e + 1
    /\ block_epochs' = block_epochs + 1
    /\ pc' = "epoch"
    /\ UNCHANGED <<config, CHECKPOINTS, ci, n_epochs, b, last_checkpoint, pbar_n,
                   decided_to_stop_early, curves, stopper, record, total_steps,
                   block_planned, tick_steps, stop_boundary>>

\* lines 274-353: the metrics and the saving of one checkpoint
Evaluate ==
    /\ pc = "evaluate"
    /\ LET demo == StartsWithDemo(input_json_filename)
           remove == ~demo /\ ShouldRemove
           wanted == IF overwrite_json THEN input_json_filename ELSE GeneratedName
           remaining == IF remove THEN files \ {input_json_filename} ELSE files
           output_json_filename == ProcessForSaving(wanted, remaining)
           assigned == RunKeys \cup MetricKeys(dropout, grids_defined)
                       \cup (IF demo THEN {} ELSE {"filname"})
                       \cup (IF ~demo /\ model_save_dir # "None"
                             THEN {"MODEL_SAVE_PATH"} ELSE {})
           this == Len(evals) + 1
       IN /\ hp_n_epochs' = [inf |-> FALSE, num |-> pbar_n, den |-> BATCHES]
          /\ hyperparameters' = hyperparameters \cup assigned
          /\ first_round' = IF demo THEN first_round ELSE FALSE
          /\ files' = IF demo THEN files ELSE remaining \cup {output_json_filename}
          /\ fs_log' = fs_log
                       \o (IF remove
                           THEN <<[op |-> "remove", name |-> input_json_filename,
                                   eval |-> this]>>
                           ELSE <<>>)
                       \o (IF demo THEN <<>>
                           ELSE <<[op |-> "write", name |-> output_json_filename,
                                   eval |-> this]>>)
          /\ evals' = Append(evals,
                        [boundary |-> ci, checkpoint |-> n_epochs,
                         loop_ended |-> e >= block_planned,
                         block_epochs |-> block_epochs, steps |-> total_steps,
                         n_epochs |-> hp_n_epochs', assigned |-> assigned,
                         stopped |-> decided_to_stop_early])
    /\ ci' = ci + 1
    /\ pc' = "checkpoint"
    /\ UNCHANGED <<config, CHECKPOINTS, n_epochs, e, b, last_checkpoint, pbar_n,
                   decided_to_stop_early, curves, stopper, total_steps, block_planned,
                   block_epochs, tick_steps, stop_boundary>>

\* early_stopper(value), outside the training loop
CallStopper ==
    /\ pc = "stopper"
    /\ Len(es_in) < MaxCalls
    /\ \E v \in 0..MaxValue :
        LET r == EarlyStopper(es_best, es_counter, DELTA, PATIENCE, Whole(v))
        IN /\ es_best' = r.best
           /\ es_counter' = r.counter
           /\ es_in' = Append(es_in, Whole(v))
           /\ es_out' = Append(es_out, r.ret)
    /\ UNCHANGED <<config, pc, loopvars, decided_to_stop_early, curves, record,
                   total_steps, block_planned, block_epochs, tick_steps, stop_boundary>>

Next == Validate \/ NextCheckpoint \/ NextEpoch \/ TrainStep \/ EndEpoch \/ Evaluate

Spec == Init /\ [][Next]_vars

SpecRecord == InitRecord /\ [][Next]_vars

NextStopper == CallStopper

SpecStopper == InitStopper /\ [][NextStopper]_vars

(* ------------------------------ properties ---------------------------- *)
NonDecreasing(cps) == \A k \in 1..(Len(cps) - 1) : cps[k].v <= cps[k + 1].v

\* the checkpoint before boundary k, 0 before the first
Previous(cps, k) == IF k = 1 THEN 0 ELSE cps[k - 1].v

\* C1: with a non-decreasing checkpoint list and no early stop, the block of
\* boundary k runs exactly c[k] - c[k-1] full epochs, and c[k] epochs have been
\* trained in total when the evaluation of boundary k starts.
Thm_C1 ==
    (NonDecreasing(CHECKPOINTS) /\ stop_boundary = 0) =>
        \A k \in 1..Len(evals) :
            /\ evals[k].block_epochs = CHECKPOINTS[k].v - Previous(CHECKPOINTS, k)
            /\ evals[k].steps = CHECKPOINTS[k].v * BATCHES

Wit_C1 ==
    /\ Len(evals) = 2
    /\ stop_boundary = 0
    /\ CHECKPOINTS = <<Int_(1), Int_(2)>>
    /\ BATCHES = 2
    /\ evals[2].block_epochs = 1
    /\ evals[2].steps = 4

\* C2: once the EarlyStopper has returned True, no training step, no diagnostic
\* tick and no EarlyStopper call happens any more, and the flag stays set.
Thm_C2 ==
    [][decided_to_stop_early =>
         /\ decided_to_stop_early'
         /\ total_steps' = total_steps
         /\ train_loss_curve' = train_loss_curve
         /\ val_loss_curve' = val_loss_curve
         /\ es_in' = es_in
         /\ es_out' = es_out]_vars

\* stopped at the third of four steps of the first block: a mini-batch and a
\* boundary were left
Wit_C2 ==
    /\ pc = "finished"
    /\ decided_to_stop_early
    /\ stop_boundary = 1
    /\ Len(CHECKPOINTS) = 2
    /\ CHECKPOINTS[1].v = 2
    /\ BATCHES = 2
    /\ total_steps = 3
    /\ Len(es_out) = 2

\* every value fed is below the one before it by more than delta
StrictlyDecreasing(s, delta) ==
    \A k \in 2..Len(s) : s[k].num < s[k - 1].num - delta

Constant(s) == \A k \in 1..Len(s) : s[k] = s[1]

NeverStops == \A k \in 1..Len(es_out) : ~es_out[k]

\* True on the last call and on no other
StopsOnLastCall ==
    /\ es_out[Len(es_out)]
    /\ \A k \in 1..(Len(es_out) - 1) : ~es_out[k]

\* C3 as stated: a strictly decreasing sequence never stops; a constant sequence
\* of length patience+1 stops exactly once, on its last call, for every patience.
Orig_C3 ==
    /\ StrictlyDecreasing(es_in, DELTA) => NeverStops
    /\ (Len(es_in) = PATIENCE + 1 /\ Constant(es_in)) => StopsOnLastCall

\* C3 amended: the constant-sequence part holds for patience >= 1 and delta >= 0.
Thm_C3 ==
    /\ StrictlyDecreasing(es_in, DELTA) => NeverStops
    /\ (Len(es_in) = PATIENCE + 1 /\ Constant(es_in) /\ PATIENCE >= 1 /\ DELTA >= 0)
           => StopsOnLastCall

Wit_C3 ==
    /\ PATIENCE = 2
    /\ DELTA = 1
    /\ es_in = <<Whole(3), Whole(3), Whole(3)>>
    /\ es_out = <<FALSE, FALSE, TRUE>>

\* an element that is negative or not an integer
BadElement(x) == ~x.isint \/ x.v < 0

NothingDone ==
    /\ total_steps = 0
    /\ train_loss_curve = <<>>
    /\ val_loss_curve = <<>>
    /\ es_out = <<>>
    /\ evals = <<>>
    /\ fs_log = <<>>
    /\ files = {input_json_filename}
    /\ hyperparameters = TemplateKeys

\* C4: an integer n gives the list [n], a list is kept as it is, and with a
\* negative or non-integer element the run fails before anything is trained,
\* recorded, evaluated, written or deleted.
Thm_C4 ==
    /\ pc # "start" =>
          IF N_EPOCHS.kind = "scalar"
          THEN Len(CHECKPOINTS) = 1 /\ CHECKPOINTS[1] = N_EPOCHS.num
          ELSE CHECKPOINTS = N_EPOCHS.items
    /\ ( \/ (N_EPOCHS.kind = "scalar" /\ BadElement(N_EPOCHS.num))
         \/ (N_EPOCHS.kind = "list"
             /\ \E k \in 1..Len(N_EPOCHS.items) : BadElement(N_EPOCHS.items[k])) )
          => (pc \in {"start", "AssertionError"} /\ NothingDone)

Wit_C4 ==
    /\ pc = "AssertionError"
    /\ N_EPOCHS.kind = "list"
    /\ CHECKPOINTS = <<Int_(2), Int_(-1)>>

SingleRun == pc = "finished" /\ Len(CHECKPOINTS) = 1 /\ ~EARLY_STOPPING

\* C5 as stated: one checkpoint of E epochs, B batches, no early stopping: both
\* curves end with floor(E*B / HOW_OFTEN) entries.
Orig_C5 ==
    SingleRun =>
        LET steps == CHECKPOINTS[1].v * BATCHES
        IN /\ Len(train_loss_curve) = steps \div HOW_OFTEN
           /\ Len(val_loss_curve) = steps \div HOW_OFTEN

\* C5 amended: both curves end with floor((E*B + 1) / HOW_OFTEN) - floor(1 / HOW_OFTEN)
\* entries.
Thm_C5 ==
    SingleRun =>
        LET steps == CHECKPOINTS[1].v * BATCHES
            ticks == ((steps + 1) \div HOW_OFTEN) - (1 \div HOW_OFTEN)
        IN /\ Len(train_loss_curve) = ticks
           /\ Len(val_loss_curve) = ticks

Wit_C5 ==
    /\ SingleRun
    /\ CHECKPOINTS[1].v = 1
    /\ BATCHES = 1
    /\ HOW_OFTEN = 2
    /\ Len(train_loss_curve) = 1
    /\ Len(val_loss_curve) = 1

C6_Stochastic ==
    {"METRIC_rmse_of_median", "METRIC_rmse_of_mean", "METRIC_mae_of_median",
     "METRIC_mae_of_mean", "METRIC_max_norm_of_median", "METRIC_max_norm_of_mean",
     "METRIC_median_energy_score", "METRIC_coverage",
     "METRIC_median_avg_inverval_score"}

C6_Deterministic == {"METRIC_rmse", "METRIC_mae", "METRIC_max_norm"}

C6_NotMetric ==
    {"n_epochs", "compute_time", "val_loss_curve", "train_loss_curve", "filname",
     "MODEL_SAVE_PATH"}

\* C6: the flag never changes; every evaluation with the flag set assigns the nine
\* sample metrics and none of the three point metrics; every evaluation with the
\* flag unset assigns the three point metrics and no other metric.
Thm_C6 ==
    /\ [](\A k \in 1..Len(evals) :
            IF dropout
            THEN /\ C6_Stochastic \subseteq evals[k].assigned
                 /\ evals[k].assigned \cap C6_Deterministic = {}
            ELSE evals[k].assigned \ C6_NotMetric = C6_Deterministic)
    /\ [][dropout' = dropout]_vars

Wit_C6 ==
    /\ dropout
    /\ Len(evals) = 2
    /\ C6_Stochastic \subseteq evals[2].assigned

\* C7: the evaluations are those of the boundaries 1, 2, ... in order, each after
\* its epoch loop has ended and none after an evaluation that saw the flag set;
\* between boundaries their number is the number of boundaries passed, or the
\* index of the boundary in which early stopping fired.
Thm_C7 ==
    /\ \A k \in 1..Len(evals) :
          /\ evals[k].boundary = k
          /\ evals[k].loop_ended
          /\ k > 1 => ~evals[k - 1].stopped
    /\ pc \in {"checkpoint", "finished"} =>
          Len(evals) = IF stop_boundary = 0 THEN ci - 1 ELSE Min(ci - 1, stop_boundary)
    /\ pc = "finished" => ci = Len(CHECKPOINTS) + 1

Wit_C7 ==
    /\ pc = "finished"
    /\ Len(CHECKPOINTS) = 2
    /\ stop_boundary = 1
    /\ Len(evals) = 1
    /\ evals[1].stopped

\* C8 as stated: the recorded n_epochs is the number of training steps so far
\* divided by the number of mini-batches, hence c[k] at boundary k of a
\* non-decreasing checkpoint list without early stopping.
Orig_C8 ==
    \A k \in 1..Len(evals) :
        /\ evals[k].n_epochs.num = evals[k].steps
        /\ evals[k].n_epochs.den = BATCHES
        /\ (NonDecreasing(CHECKPOINTS) /\ stop_boundary = 0) =>
               evals[k].n_epochs.num = CHECKPOINTS[k].v * evals[k].n_epochs.den

\* C9 as stated: two consecutive diagnostic ticks are HOW_OFTEN training steps
\* apart.
Orig_C9 ==
    \A k \in 1..(Len(tick_steps) - 1) : tick_steps[k + 1] - tick_steps[k] = HOW_OFTEN

C10_Demo ==
    /\ Len(input_json_filename) >= 4
    /\ input_json_filename[1] = "d"
    /\ input_json_filename[2] = "e"
    /\ input_json_filename[3] = "m"
    /\ input_json_filename[4] = "o"

C10_Removes == {k \in 1..Len(fs_log) : fs_log[k].op = "remove"}

\* C10: the input file is removed at most once, only with overwrite mode on and a
\* name that does not start with "demo", in the first evaluation and before any
\* record is written.
Thm_C10 ==
    /\ Cardinality(C10_Removes) <= 1
    /\ \A k \in C10_Removes :
          /\ overwrite_json
          /\ ~C10_Demo
          /\ fs_log[k].name = input_json_filename
          /\ fs_log[k].eval = 1
          /\ \A j \in 1..(k - 1) : fs_log[j].op # "write"
    /\ (~overwrite_json \/ C10_Demo) => input_json_filename \in files

Wit_C10 ==
    /\ overwrite_json
    /\ input_json_filename = MyDemoName
    /\ Len(evals) = 2
    /\ Cardinality(C10_Removes) = 1
    /\ Len(fs_log) = 3

====
